---- MODULE Spec2Model ----
(***************************************************************************)
(* NecklaceGraph (src/src/components/ForceTest.tsx): a ring of nodes laid  *)
(* out by a d3 force simulation, with wavy links and pointer dragging.     *)
(*                                                                         *)
(* Numbers.  The program computes in IEEE doubles; the model computes in   *)
(* integers.  Positions and velocities are whole pixels, a product with a  *)
(* fractional coefficient is truncated toward zero (Quot).  alpha and      *)
(* alphaTarget are fixed-point with Scale units to 1.0.  Coefficients are  *)
(* carried as numerator/denominator pairs.                                 *)
(***************************************************************************)
EXTENDS Integers, Sequences, FiniteSets, TLC

\* ------------------------------------------------------------------ bounds
\* Largest dataset (number of nodes in placeholderData.nodes).
MaxN == 2
\* Times the effect body runs (mounts of the component).
MaxRuns == 2
\* Pointer events (drag start/move/end, click) delivered in all.
MaxInputs == 2
\* Fixed-point resolution of alpha: Scale units are alpha = 1.0.  A decay
\* smaller than one unit is rounded up to one unit, so that a simulation
\* whose alphaTarget is 0 cools off within Scale ticks.
Scale == 40

\* ------------------------------------------------------- integer arithmetic
Abs(a) == IF a < 0 THEN -a ELSE a

Min(a, b) == IF a <= b THEN a ELSE b

\* a / b truncated toward zero, b > 0.
Quot(a, b) == IF a >= 0 THEN a \div b ELSE -((-a) \div b)

\* floor(sqrt(k)) for 0 <= k < hi * hi.
ISqrt(k, hi) == CHOOSE q \in 0..hi : q * q <= k /\ (q + 1) * (q + 1) > k

\* ---------------------------------------------------------- configuration
\* config (useMemo): radiusFactor in tenths, snapStrength and jitterStrength
\* in hundredths.
CodeConfig ==
  [width |-> 1200, height |-> 1000, nodeSize |-> 60, radiusFactor |-> 4,
   collisionPadding |-> 5, snapStrength |-> 3, jitterStrength |-> 1,
   numSegments |-> 6]

\* The same on a canvas small enough for neighbouring nodes to touch.
SmallConfig ==
  [CodeConfig EXCEPT !.width = 120, !.height = 100, !.numSegments = 1]

\* A single offset per link (segments = 0 in the path generator).
ZeroSegmentConfig == [CodeConfig EXCEPT !.numSegments = 0]

\* A negative segment count: Array.from({ length: 0 }) gives no offsets.
NegativeSegmentConfig == [CodeConfig EXCEPT !.numSegments = 0 - 1]

Configs ==
  {CodeConfig, SmallConfig, ZeroSegmentConfig, NegativeSegmentConfig}

\* Math.random(): a generator with hidden state.
RngMod == 16

Seeds == {5}

RngNext(r) == (5 * r + 3) % RngMod

\* (Math.random() - 0.5) * maxOffset for the draw r / RngMod, maxOffset = 20.
MaxOffset == 20

OffsetOf(r) == Quot((2 * r - RngMod) * MaxOffset, 2 * RngMod)

\* d3 defaults not overridden by the component, and the values it sets.
\* alphaDecay(0.001) and the default alphaMin = 0.001, as 1 / Den.
AlphaDecayDen == 1000

AlphaMinDen == 1000

\* alpha < alphaMin for the fixed-point a.
BelowAlphaMin(a) == a * AlphaMinDen < Scale

ChargeStrength == 0 - 50

\* --------------------------------------------------------- TargetComputer
\* cos and sin of 2*pi*i/n in thousandths, i = 0..n-1.
Trig(n) ==
  CASE n = 1 -> << <<1000, 0>> >>
    [] n = 2 -> << <<1000, 0>>, <<-1000, 0>> >>
    [] n = 3 -> << <<1000, 0>>, <<-500, 866>>, <<-500, -866>> >>
    [] n = 4 -> << <<1000, 0>>, <<0, 1000>>, <<-1000, 0>>, <<0, -1000>> >>
    [] n = 5 -> << <<1000, 0>>, <<309, 951>>, <<-809, 588>>, <<-809, -588>>,
                   <<309, -951>> >>
    [] OTHER -> << >>

nodeRadius(c) == Quot(c.nodeSize, 2)

radius(c) == Quot(Min(c.width, c.height) * c.radiusFactor, 10)

\* targets = nodes.map((_, i) => ...); node i of the program is index i+1.
ComputeTargets(c, n) ==
  [i \in 1..n |->
     [x |-> Quot(c.width, 2) + Quot(radius(c) * Trig(n)[i][1], 1000),
      y |-> Quot(c.height, 2) + Quot(radius(c) * Trig(n)[i][2], 1000)]]

\* ----------------------------------------------------------- ForceComposer
\* A jiggle draw of d3 (coincident coordinates): a random direction.  All
\* draws of one tick return the direction chosen for that tick.
Jiggles == {<<1, 0>>, <<0 - 1, 0>>}

\* One term of forceManyBody().strength(-50) on node i from node j:
\* node.vx += x * strength * alpha / l with l the squared distance.
ChargeTerm(ns, i, j, a, jig) ==
  LET dx == ns[j].x - ns[i].x
      dy == ns[j].y - ns[i].y
      l  == dx * dx + dy * dy
  IN  IF l = 0
        THEN [x |-> Quot(jig[1] * ChargeStrength * a, Scale),
              y |-> Quot(jig[2] * ChargeStrength * a, Scale)]
        ELSE [x |-> Quot(dx * ChargeStrength * a, l * Scale),
              y |-> Quot(dy * ChargeStrength * a, l * Scale)]

RECURSIVE ChargeSum(_, _, _, _, _)
ChargeSum(ns, i, j, a, jig) ==
  IF j > Len(ns) THEN [x |-> 0, y |-> 0]
  ELSE LET rest == ChargeSum(ns, i, j + 1, a, jig)
           t    == IF j = i THEN [x |-> 0, y |-> 0]
                   ELSE ChargeTerm(ns, i, j, a, jig)
       IN  [x |-> t.x + rest.x, y |-> t.y + rest.y]

\* .force("charge", d3.forceManyBody().strength(-50))
ForceCharge(ns, a, jig) ==
  [i \in 1..Len(ns) |->
     LET f == ChargeSum(ns, i, 1, a, jig)
     IN  [ns[i] EXCEPT !.vx = @ + f.x, !.vy = @ + f.y]]

RECURSIVE SumX(_, _)
SumX(ns, i) == IF i > Len(ns) THEN 0 ELSE ns[i].x + SumX(ns, i + 1)

RECURSIVE SumY(_, _)
SumY(ns, i) == IF i > Len(ns) THEN 0 ELSE ns[i].y + SumY(ns, i + 1)

\* .force("center", d3.forceCenter(width / 2, height / 2)): shifts every
\* position so that the centroid is the centre; not scaled by alpha.
ForceCenter(ns, c) ==
  IF Len(ns) = 0 THEN ns
  ELSE LET sx == Quot(SumX(ns, 1), Len(ns)) - Quot(c.width, 2)
           sy == Quot(SumY(ns, 1), Len(ns)) - Quot(c.height, 2)
       IN  [i \in 1..Len(ns) |-> [ns[i] EXCEPT !.x = @ - sx, !.y = @ - sy]]

\* forceCollide apply(): node i against node j > i, both of radius rad,
\* at the positions anticipated from the current velocities.
CollidePair(ns, i, j, xi, yi, rad, jig) ==
  LET x  == xi - ns[j].x - ns[j].vx
      y  == yi - ns[j].y - ns[j].vy
      l2 == x * x + y * y
      r  == rad + rad
  IN  IF l2 < r * r
        THEN LET l  == ISqrt(l2, Abs(r))
                 px == IF l2 = 0 THEN r * jig[1] ELSE Quot(x * (r - l), l)
                 py == IF l2 = 0 THEN r * jig[2] ELSE Quot(y * (r - l), l)
             IN  [ns EXCEPT ![i].vx = @ + Quot(px, 2),
                            ![i].vy = @ + Quot(py, 2),
                            ![j].vx = @ - (px - Quot(px, 2)),
                            ![j].vy = @ - (py - Quot(py, 2))]
        ELSE ns

RECURSIVE CollideInner(_, _, _, _, _, _, _)
CollideInner(ns, i, j, xi, yi, rad, jig) ==
  IF j > Len(ns) THEN ns
  ELSE CollideInner(CollidePair(ns, i, j, xi, yi, rad, jig),
                    i, j + 1, xi, yi, rad, jig)

RECURSIVE CollideOuter(_, _, _, _)
CollideOuter(ns, i, rad, jig) ==
  IF i > Len(ns) THEN ns
  ELSE CollideOuter(
         CollideInner(ns, i, i + 1, ns[i].x + ns[i].vx, ns[i].y + ns[i].vy,
                      rad, jig),
         i + 1, rad, jig)

\* .force("collision", d3.forceCollide(nodeRadius + collisionPadding))
ForceCollide(ns, c, jig) ==
  CollideOuter(ns, 1, nodeRadius(c) + c.collisionPadding, jig)

\* A snap force that sets the velocity instead of adding to it.
ForceSnapOverwrite(ns, tg, c) ==
  [i \in 1..Len(ns) |->
     [ns[i] EXCEPT !.vx = Quot((tg[i].x - ns[i].x) * c.snapStrength, 100),
                   !.vy = Quot((tg[i].y - ns[i].y) * c.snapStrength, 100)]]

\* .force("snap", ...): soft spring back to the circular target.
ForceSnap(ns, tg, c) ==
  [i \in 1..Len(ns) |->
     [ns[i] EXCEPT !.vx = @ + Quot((tg[i].x - ns[i].x) * c.snapStrength, 100),
                   !.vy = @ + Quot((tg[i].y - ns[i].y) * c.snapStrength, 100)]]

\* ---------------------------------------------------------- SimulationLoop
\* alpha that does not decay (alphaDecay 0).
AlphaStepNoDecay(a, t) == a

\* alpha += (alphaTarget - alpha) * alphaDecay, alphaDecay = 0.001.
AlphaStep(a, t) == a + ((t - a) \div AlphaDecayDen)

\* The snap force registered first: collision resolution runs after it.
ApplyForcesSnapFirst(ns, tg, c, a, jig) ==
  ForceCollide(ForceCenter(ForceCharge(ForceSnap(ns, tg, c), a, jig), c),
               c, jig)

\* The forces in the order they were registered.
ApplyForces(ns, tg, c, a, jig) ==
  ForceSnap(ForceCollide(ForceCenter(ForceCharge(ns, a, jig), c), c, jig),
            tg, c)

\* node.x += node.vx *= velocityDecay, velocityDecay = 1 - 0.4; no node has
\* fx or fy, so every node is integrated.
Integrate(ns) ==
  [i \in 1..Len(ns) |->
     LET vx == Quot(ns[i].vx * 6, 10)
         vy == Quot(ns[i].vy * 6, 10)
     IN  [x |-> ns[i].x + vx, y |-> ns[i].y + vy, vx |-> vx, vy |-> vy]]

\* simulation.tick(): the node pass of one tick at the decayed alpha.
TickNodes(ns, tg, c, a, jig) == Integrate(ApplyForces(ns, tg, c, a, jig))

\* The directions the jiggle draws of a tick can return: forceManyBody draws
\* when two nodes have the same position, forceCollide when two anticipated
\* positions are the same; without a draw the direction is not used.
Coincide(ns, ax, ay) ==
  \E i, j \in 1..Len(ns) :
    /\ i < j
    /\ ns[i].x + ax * ns[i].vx = ns[j].x + ax * ns[j].vx
    /\ ns[i].y + ay * ns[i].vy = ns[j].y + ay * ns[j].vy

JiggleDraws(ns, a) ==
  IF Coincide(ns, 0, 0) \/ Coincide(ForceCharge(ns, a, <<1, 0>>), 1, 1)
    THEN Jiggles
    ELSE {<<1, 0>>}

\* ------------------------------------------------------------------- links
\* links = nodes.map((node, i) => ({source: nodes[i], target: nodes[(i+1) % n]}))
BuildLinks(n) == [i \in 1..n |-> [source |-> i, target |-> (i % n) + 1]]

\* Array.from({length: len}, () => [random offsetX, random offsetY]) from the
\* generator state r; a length below 1 gives the empty array.
RECURSIVE GenOffsets(_, _)
GenOffsets(r, len) ==
  IF len <= 0 THEN [offs |-> << >>, rng |-> r]
  ELSE LET r1   == RngNext(r)
           r2   == RngNext(r1)
           rest == GenOffsets(r2, len - 1)
       IN  [offs |-> << <<OffsetOf(r1), OffsetOf(r2)>> >> \o rest.offs,
            rng  |-> rest.rng]

\* A link's array one entry short.
SegmentOffsetsShort(r, c) == GenOffsets(r, c.numSegments)

\* Array.from({length: segments + 1}, ...), segments = config.numSegments.
SegmentOffsets(r, c) == GenOffsets(r, c.numSegments + 1)

\* links.forEach((link) => link.segmentOffsets = ...), links k..n.
RECURSIVE AttachOffsets(_, _, _, _)
AttachOffsets(lk, k, r, c) ==
  IF k > Len(lk) THEN [links |-> lk, rng |-> r]
  ELSE LET g == SegmentOffsets(r, c)
       IN  AttachOffsets(
             [lk EXCEPT ![k] = [source |-> lk[k].source,
                                target |-> lk[k].target,
                                segmentOffsets |-> g.offs]],
             k + 1, g.rng, c)

\* ------------------------------------------------------- LinkPathGenerator
\* A coordinate that is NaN has ok = FALSE.
NaNPoint == [ok |-> FALSE, x |-> 0, y |-> 0]

\* Waypoint i of multiSegmentWavyPathStable, t = i / segments.
WayPoint(src, tgt, offs, i) ==
  LET segments == Len(offs) - 1
  IN  IF segments = 0 THEN NaNPoint
      ELSE [ok |-> TRUE,
            x  |-> src.x + Quot((tgt.x - src.x) * i, segments) + offs[i + 1][1],
            y  |-> src.y + Quot((tgt.y - src.y) * i, segments) + offs[i + 1][2]]

\* The path is the sequence of waypoints the cardinal spline is fitted to;
\* no waypoint gives no path (lineGenerator returns null).
multiSegmentWavyPathStable(src, tgt, offs) ==
  [k \in 1..Len(offs) |-> WayPoint(src, tgt, offs, k - 1)]

\* ---------------------------------------------------------------- Renderer
\* Attributes of the drawn elements.  Created: images at the node positions,
\* labels and link paths without coordinates.
DrawInitial(ns, lk, c) ==
  [img   |-> [i \in 1..Len(ns) |->
               <<ns[i].x - nodeRadius(c), ns[i].y - nodeRadius(c)>>],
   label |-> << >>,
   path  |-> [k \in 1..Len(lk) |-> << >>]]

\* ticked(): images, labels and link paths from the current node positions.
ticked(ns, lk, c) ==
  [img   |-> [i \in 1..Len(ns) |->
               <<ns[i].x - nodeRadius(c), ns[i].y - nodeRadius(c)>>],
   label |-> [i \in 1..Len(ns) |->
               <<ns[i].x, ns[i].y - nodeRadius(c) - 5>>],
   path  |-> [k \in 1..Len(lk) |->
               multiSegmentWavyPathStable(ns[lk[k].source], ns[lk[k].target],
                                          lk[k].segmentOffsets)]]

\* ------------------------------------------------------------------- state
VARIABLES
  cfg,          \* config
  nodes,        \* placeholderData.nodes: x, y, vx, vy of every node
  targets,      \* targets of the current effect run
  links,        \* links with their segmentOffsets
  rng,          \* state of Math.random
  alpha,        \* simulation.alpha()
  alphaTarget,  \* simulation.alphaTarget()
  phase,        \* "Running" while the simulation's timer is active
  ticks,        \* tick() calls of the current simulation
  onTicks,      \* ticked() calls of the current simulation
  view,         \* attributes of the drawn elements
  dragging,     \* subject of the active gesture of d3.drag, 0 for none
  selected,     \* useState selected: node index, 0 for null
  mounted,      \* the effect has run and its cleanup has not
  runs,         \* effect runs so far
  inputs,       \* pointer events delivered so far
  ev            \* the handler that ran last, with its arguments

vars == <<cfg, nodes, targets, links, rng, alpha, alphaTarget, phase, ticks,
          onTicks, view, dragging, selected, mounted, runs, inputs, ev>>

Idle == 0

\* nodes.forEach((node, i) => { node.x = targets[i].x; node.y = targets[i].y })
InitPositions(ns, tg) ==
  [i \in 1..Len(ns) |-> [ns[i] EXCEPT !.x = tg[i].x, !.y = tg[i].y]]

\* A node object no simulation has touched: forceSimulation(nodes) sets the
\* missing vx, vy to 0.
FreshNode == [x |-> 0, y |-> 0, vx |-> 0, vy |-> 0]

\* The effect body: targets, links, positions, offsets, a new simulation
\* with alpha(1) whose timer is started, and the drawn elements.
Effect(c, ns, r) ==
  LET tg  == ComputeTargets(c, Len(ns))
      ns1 == InitPositions(ns, tg)
      at  == AttachOffsets(BuildLinks(Len(ns)), 1, r, c)
  IN  [targets |-> tg, nodes |-> ns1, links |-> at.links, rng |-> at.rng,
       alpha |-> Scale, alphaTarget |-> 0, phase |-> "Running",
       view |-> DrawInitial(ns1, at.links, c)]

Init ==
  \E c \in Configs, n \in 0..MaxN, r \in Seeds :
    LET e == Effect(c, [i \in 1..n |-> FreshNode], r)
    IN  /\ cfg = c
        /\ nodes = e.nodes
        /\ targets = e.targets
        /\ links = e.links
        /\ rng = e.rng
        /\ alpha = e.alpha
        /\ alphaTarget = e.alphaTarget
        /\ phase = e.phase
        /\ view = e.view
        /\ ticks = 0
        /\ onTicks = 0
        /\ dragging = Idle
        /\ selected = 0
        /\ mounted = TRUE
        /\ runs = 1
        /\ inputs = 0
        /\ ev = [op |-> "start"]

\* ----------------------------------------------------------------- actions
\* A step that never stops the timer.
StepPhaseNoStop(a) == "Running"

\* step(): if (alpha < alphaMin) the timer is stopped.
StepPhase(a) == IF BelowAlphaMin(a) THEN "Stopped" ELSE "Running"

\* ticked dispatched before the tick's node pass.
StepViewEarly(before, after, lk, c) == ticked(before, lk, c)

\* step() dispatches "tick" to ticked after tick() has returned: what is
\* drawn comes from the nodes as the tick left them.
StepView(before, after, lk, c) == ticked(after, lk, c)

\* One timer callback of the simulation: tick(), then ticked(), then the
\* alphaMin test.
Step ==
  /\ phase = "Running"
  /\ alpha' = AlphaStep(alpha, alphaTarget)
  /\ \E jig \in JiggleDraws(nodes, alpha') :
       nodes' = TickNodes(nodes, targets, cfg, alpha', jig)
  /\ view' = StepView(nodes, nodes', links, cfg)
  /\ phase' = StepPhase(alpha')
  /\ ticks' = ticks + 1
  /\ onTicks' = onTicks + 1
  /\ ev' = [op |-> "tick"]
  /\ UNCHANGED <<cfg, targets, links, rng, alphaTarget, dragging, selected,
                 mounted, runs, inputs>>

\* Pointer positions of a drag, relative to the dragged node.
DragDeltas == {<<20, 0>>, <<0, 0 - 20>>}

\* d3.drag() has no "start" listener: a gesture starting on node d changes
\* the gesture state only.
DragStartHandler(at) == at

DragStart(d) ==
  /\ mounted
  /\ inputs < MaxInputs
  /\ dragging = Idle
  /\ dragging' = d
  /\ alphaTarget' = DragStartHandler(alphaTarget)
  /\ inputs' = inputs + 1
  /\ ev' = [op |-> "dragstart", d |-> d]
  /\ UNCHANGED <<cfg, nodes, targets, links, rng, alpha, phase, ticks,
                 onTicks, view, selected, mounted, runs>>

\* A drag listener that writes x only.
DragHandlerXOnly(ns, d, x, y) == [ns EXCEPT ![d].x = x]

\* .on("drag", (event, d) => { d.x = event.x; d.y = event.y })
DragHandler(ns, d, x, y) == [ns EXCEPT ![d].x = x, ![d].y = y]

DragMove(dl) ==
  /\ mounted
  /\ inputs < MaxInputs
  /\ dragging # Idle
  /\ LET x == nodes[dragging].x + dl[1]
         y == nodes[dragging].y + dl[2]
     IN  /\ nodes' = DragHandler(nodes, dragging, x, y)
         /\ ev' = [op |-> "drag", d |-> dragging, x |-> x, y |-> y]
  /\ inputs' = inputs + 1
  /\ UNCHANGED <<cfg, targets, links, rng, alpha, alphaTarget, phase, ticks,
                 onTicks, view, dragging, selected, mounted, runs>>

\* An end listener that leaves the simulation warm: alphaTarget(0.3).
EndHandlerWarm(at) == (3 * Scale) \div 10

\* .on("end", (event, d) => { simulation.alphaTarget(0) })
EndHandler(at) == 0

DragEnd ==
  /\ mounted
  /\ inputs < MaxInputs
  /\ dragging # Idle
  /\ alphaTarget' = EndHandler(alphaTarget)
  /\ dragging' = Idle
  /\ inputs' = inputs + 1
  /\ ev' = [op |-> "dragend", d |-> dragging]
  /\ UNCHANGED <<cfg, nodes, targets, links, rng, alpha, phase, ticks,
                 onTicks, view, selected, mounted, runs>>

\* .on("click", (event, d) => setSelected(d))
ClickHandler(sel, d) == d

\* A config rebuilt by every render: a new `selected` changes the dependency.
DepsChangedByRender(sel, sel1) == sel # sel1

\* useEffect(..., [config]) after the re-render that setSelected causes:
\* config is memoized on [], so the dependency is the same object.
DepsChanged(sel, sel1) == FALSE

\* A click is delivered between gestures, not during one. The component
\* re-renders; the effect and its cleanup run again only on a changed
\* dependency.
Click(d) ==
  /\ mounted
  /\ inputs < MaxInputs
  /\ dragging = Idle
  /\ selected' = ClickHandler(selected, d)
  /\ inputs' = inputs + 1
  /\ ev' = [op |-> "click", d |-> d]
  /\ IF DepsChanged(selected, selected')
       THEN LET e == Effect(cfg, nodes, rng)
            IN  /\ nodes' = e.nodes
                /\ targets' = e.targets
                /\ links' = e.links
                /\ rng' = e.rng
                /\ alpha' = e.alpha
                /\ alphaTarget' = e.alphaTarget
                /\ phase' = e.phase
                /\ view' = e.view
                /\ ticks' = 0
                /\ onTicks' = 0
                /\ runs' = runs + 1
       ELSE UNCHANGED <<nodes, targets, links, rng, alpha, alphaTarget,
                        phase, view, ticks, onTicks, runs>>
  /\ UNCHANGED <<cfg, dragging, mounted>>

\* A cleanup that leaves the timer as it is.
SimStopNone(ph) == ph

\* A stop that toggles the timer.
SimStopToggle(ph) == IF ph = "Running" THEN "Stopped" ELSE "Running"

\* simulation.stop(): the timer is stopped.
SimStop(ph) == "Stopped"

\* The component unmounts: the effect's cleanup runs, and the component's
\* state and its drawn elements are discarded with it.
Unmount ==
  /\ mounted
  /\ phase' = SimStop(phase)
  /\ mounted' = FALSE
  /\ dragging' = Idle
  /\ selected' = 0
  /\ view' = DrawInitial(<< >>, << >>, cfg)
  /\ ev' = [op |-> "stop"]
  /\ UNCHANGED <<cfg, nodes, targets, links, rng, alpha, alphaTarget, ticks,
                 onTicks, runs, inputs>>

\* The effect body of a later mount, over the same node objects.
Mount ==
  /\ ~mounted
  /\ runs < MaxRuns
  /\ LET e == Effect(cfg, nodes, rng)
     IN  /\ nodes' = e.nodes
         /\ targets' = e.targets
         /\ links' = e.links
         /\ rng' = e.rng
         /\ alpha' = e.alpha
         /\ alphaTarget' = e.alphaTarget
         /\ phase' = e.phase
         /\ view' = e.view
  /\ ticks' = 0
  /\ onTicks' = 0
  /\ dragging' = Idle
  /\ selected' = 0
  /\ mounted' = TRUE
  /\ runs' = runs + 1
  /\ ev' = [op |-> "start"]
  /\ UNCHANGED <<cfg, inputs>>

Next ==
  \/ Step
  \/ \E d \in 1..Len(nodes) : DragStart(d)
  \/ \E dl \in DragDeltas : DragMove(dl)
  \/ DragEnd
  \/ \E d \in 1..Len(nodes) : Click(d)
  \/ Unmount
  \/ Mount

Spec == Init /\ [][Next]_vars

\* The steps that add a tick are the Step steps, and one is possible
\* exactly while the simulation's timer is active.
TimerStep == phase = "Running" /\ ticks' = ticks + 1

\* The timer calls step on every animation frame while it is active: a
\* tick that stays possible is eventually taken.
FairSpec == Spec /\ WF_ticks(TimerStep)

\* ------------------------------------------------------------------ claims
PointerOps == {"dragstart", "drag", "dragend", "click"}

OffTarget(i) == nodes[i].x # targets[i].x \/ nodes[i].y # targets[i].y

\* C1: while a node is dragged, after a drag-move on it and before its
\* drag-end, a simulation tick leaves that node's position unchanged.
C1_DraggedNodeHeldByTick ==
  [][(ev.op = "drag" /\ ev'.op = "tick")
       => /\ nodes'[ev.d].x = nodes[ev.d].x
          /\ nodes'[ev.d].y = nodes[ev.d].y]_vars

\* C2: drag-start raises alphaTarget above 0, and while a drag is in
\* progress the loop does not go from Running to Stopped.
C2_DragKeepsLoopWarm ==
  [][/\ (ev'.op = "dragstart" => alphaTarget' > 0)
     /\ (dragging # Idle /\ dragging' # Idle /\ phase = "Running"
           => phase' = "Running")]_vars

\* C3: a drag-move(x, y) on node d sets d's position to (x, y) and changes
\* nothing else: not d's velocity, no other node, not alpha, alphaTarget,
\* the phase or any link.
C3_DragMoveFrame ==
  [][ev'.op = "drag"
       => /\ nodes'[ev'.d].x = ev'.x
          /\ nodes'[ev'.d].y = ev'.y
          /\ nodes'[ev'.d].vx = nodes[ev'.d].vx
          /\ nodes'[ev'.d].vy = nodes[ev'.d].vy
          /\ Len(nodes') = Len(nodes)
          /\ \A i \in 1..Len(nodes) : i # ev'.d => nodes'[i] = nodes[i]
          /\ alpha' = alpha
          /\ alphaTarget' = alphaTarget
          /\ phase' = phase
          /\ links' = links]_vars

\* A drag-move has put one of several nodes off its target, at the pointer.
C3_Witness ==
  /\ ev.op = "drag"
  /\ Len(nodes) >= 2
  /\ nodes[ev.d].x = ev.x
  /\ nodes[ev.d].y = ev.y
  /\ OffTarget(ev.d)

\* C4: after every drag-end alphaTarget is 0 and the drag state is Idle, and
\* the tick that follows cools alpha.
C4_DragEndCools ==
  [][/\ (ev'.op = "dragend" => alphaTarget' = 0 /\ dragging' = Idle)
     /\ (ev.op = "dragend" /\ ev'.op = "tick" => alpha' < alpha)]_vars

\* A drag has ended while the simulation runs.
C4_Witness ==
  /\ ev.op = "dragend"
  /\ dragging = Idle
  /\ alphaTarget = 0
  /\ phase = "Running"

\* C5: while alphaTarget is 0 no tick increases alpha; the tick that takes
\* alpha below alphaMin, and no other, stops the loop; a stopped loop
\* executes no tick.
C5_AlphaCoolsThenStops ==
  [][/\ (ev'.op = "tick" /\ alphaTarget = 0 => alpha' <= alpha)
     /\ (ev'.op = "tick"
           => /\ phase = "Running"
              /\ (phase' = "Stopped" <=> BelowAlphaMin(alpha')))
     /\ (phase = "Stopped" /\ runs' = runs
           => ticks' = ticks /\ phase' = "Stopped" /\ alpha' = alpha)]_vars

\* The loop has cooled off and stopped, after pointer events.
C5_Witness ==
  /\ mounted
  /\ ev.op = "tick"
  /\ phase = "Stopped"
  /\ BelowAlphaMin(alpha)
  /\ inputs > 0

\* C6: ticked is invoked once per tick, after the tick's node pass and only
\* while the loop runs; no pointer event on a stopped loop invokes it or
\* sets the loop running.
C6_OnTickOncePerTick ==
  [][/\ onTicks' = ticks'
     /\ (ev'.op = "tick"
           => /\ phase = "Running"
              /\ onTicks' = onTicks + 1
              /\ view' = ticked(nodes', links', cfg'))
     /\ (ev'.op \in PointerOps \cup {"stop"} => onTicks' = onTicks)
     /\ (phase = "Stopped" /\ ev'.op \in PointerOps
           => phase' = "Stopped" /\ ticks' = ticks)]_vars

\* A drag-move was delivered to a loop that had cooled off: nothing was
\* drawn for it.
C6_Witness ==
  /\ ev.op = "drag"
  /\ phase = "Stopped"
  /\ BelowAlphaMin(alpha)
  /\ onTicks = ticks
  /\ view # ticked(nodes, links, cfg)

\* C7: stop() leaves the loop Stopped in whatever state it is called and
\* changes nothing else of the simulation; on a loop that is already
\* Stopped it changes nothing, and no tick follows it.
C7_StopIdempotent ==
  [][/\ (ev'.op = "stop"
           => /\ phase' = "Stopped"
              /\ (phase = "Stopped" => phase' = phase)
              /\ alpha' = alpha
              /\ alphaTarget' = alphaTarget
              /\ nodes' = nodes
              /\ targets' = targets
              /\ links' = links
              /\ ticks' = ticks
              /\ onTicks' = onTicks)
     /\ (ev.op = "stop" => ev'.op # "tick")]_vars

\* stop() was called on a loop that had already cooled off and stopped.
C7_Witness ==
  /\ ev.op = "stop"
  /\ phase = "Stopped"
  /\ BelowAlphaMin(alpha)
  /\ ticks > 0

\* C8: every link has exactly numSegments + 1 offset pairs, and no tick,
\* pointer event or stop changes any of them.
C8_OffsetsStable ==
  [][/\ \A k \in 1..Len(links) :
          Len(links[k].segmentOffsets) = cfg.numSegments + 1
     /\ \A k \in 1..Len(links') :
          Len(links'[k].segmentOffsets) = cfg'.numSegments + 1
     /\ (ev'.op # "start"
           => /\ Len(links') = Len(links)
              /\ \A k \in 1..Len(links) :
                   links'[k].segmentOffsets = links[k].segmentOffsets)]_vars

\* Links with their offsets after ticks and a drag-move.
C8_Witness ==
  /\ Len(links) >= 2
  /\ ticks >= 2
  /\ ev.op = "tick"
  /\ \E i \in 1..Len(nodes) : OffTarget(i)
  /\ \A k \in 1..Len(links) :
       Len(links[k].segmentOffsets) = cfg.numSegments + 1

\* C9: with an empty dataset the loop is Stopped at once: no tick is
\* executed and ticked is never invoked.
C9_EmptyDatasetNoOp ==
  Len(nodes) = 0 => (phase = "Stopped" /\ ticks = 0 /\ onTicks = 0)

\* C10: the links are the ring links i -> (i + 1) mod n for n >= 2 and there
\* is no link for n <= 1; no link joins a node to itself.
C10_RingLinks ==
  /\ Len(links) = (IF Len(nodes) >= 2 THEN Len(nodes) ELSE 0)
  /\ \A k \in 1..Len(links) :
       /\ links[k].source = k
       /\ links[k].target = (k % Len(nodes)) + 1
       /\ links[k].source # links[k].target

\* The configurations the claim C11 calls acceptable.
ValidConfig(c) == c.radiusFactor > 0 /\ c.nodeSize > 0 /\ c.numSegments >= 0

\* C11: a configuration with radiusFactor <= 0, nodeSize <= 0 or
\* numSegments < 0 is rejected before start: the loop never enters Running
\* and no tick and no ticked call occurs.
C11_InvalidConfigRejected ==
  ~ValidConfig(cfg) => (phase # "Running" /\ ticks = 0 /\ onTicks = 0)

\* C12: right after every start, a start that follows an earlier run
\* included, alpha = 1, alphaTarget = 0, the loop is Running, every node is
\* at its target with zero velocity and every link has a full set of
\* offsets.
C12_StartResetsAll ==
  ev.op = "start"
    => /\ alpha = Scale
       /\ alphaTarget = 0
       /\ phase = "Running"
       /\ \A i \in 1..Len(nodes) :
            /\ nodes[i].x = targets[i].x
            /\ nodes[i].y = targets[i].y
            /\ nodes[i].vx = 0
            /\ nodes[i].vy = 0
       /\ \A k \in 1..Len(links) :
            Len(links[k].segmentOffsets) = cfg.numSegments + 1

\* C13: a click on a node records that node as selected and changes nothing
\* else: positions, velocities, alpha, alphaTarget, the phase, the targets,
\* the link offsets and the tick counts are as before, and no simulation is
\* stopped or created.
C13_ClickOnlySelects ==
  [][ev'.op = "click"
       => /\ selected' = ev'.d
          /\ nodes' = nodes
          /\ alpha' = alpha
          /\ alphaTarget' = alphaTarget
          /\ phase' = phase
          /\ targets' = targets
          /\ links' = links
          /\ ticks' = ticks
          /\ onTicks' = onTicks
          /\ runs' = runs]_vars

\* A click on a node of a cooling simulation whose nodes are moving.
C13_Witness ==
  /\ ev.op = "click"
  /\ selected = ev.d
  /\ phase = "Running"
  /\ ticks >= 1
  /\ alpha < Scale
  /\ \E i \in 1..Len(nodes) : nodes[i].vx # 0

\* C14: a link with a single offset (segments = 0) gets a well-defined
\* path: every waypoint that ticked computed for it has defined coordinates.
C14_ZeroSegmentsPathDefined ==
  \A k \in 1..Len(links) :
    (Len(links[k].segmentOffsets) = 1 /\ k \in DOMAIN view.path)
      => \A p \in 1..Len(view.path[k]) : view.path[k][p].ok

\* C15: with ticks scheduled fairly, every tick lowers alpha (no handler
\* holds alphaTarget above 0), and a Running simulation over n >= 1 nodes,
\* n = 1 included, reaches Stopped: by cooling below alphaMin unless the
\* component is unmounted first.
C15_CoolsToStopped ==
  /\ [][/\ ev'.op = "tick" => (alphaTarget = 0 /\ alpha' < alpha)
        /\ (phase' = "Stopped" /\ mounted') => BelowAlphaMin(alpha')]_vars
  /\ (phase = "Running" /\ Len(nodes) >= 1) ~> (phase = "Stopped")

\* A simulation over one node that was dragged and has cooled to Stopped.
C15_Witness ==
  /\ Len(nodes) = 1
  /\ mounted
  /\ phase = "Stopped"
  /\ BelowAlphaMin(alpha)
  /\ ev.op = "tick"
  /\ inputs >= 2

C17_SnapExact ==
  \E snapped \in {ForceSnap(nodes, targets, cfg)} :
    \A i \in 1..Len(nodes) :
      /\ snapped[i].vx - nodes[i].vx
           = Quot(cfg.snapStrength * (targets[i].x - nodes[i].x), 100)
      /\ snapped[i].vy - nodes[i].vy
           = Quot(cfg.snapStrength * (targets[i].y - nodes[i].y), 100)
      /\ snapped[i].x = nodes[i].x
      /\ snapped[i].y = nodes[i].y
      /\ (~OffTarget(i) => snapped[i] = nodes[i])

\* A cooled-down simulation with a moving node far from its target, which
\* the snap force accelerates.
C17_Witness ==
  /\ ticks >= 2
  /\ alpha < Scale
  /\ \E i \in 1..Len(nodes) :
       /\ nodes[i].vx # 0
       /\ ForceSnap(nodes, targets, cfg)[i].vx # nodes[i].vx

\* C18: at most one simulation runs over the node objects: a simulation is
\* created only when the previous one has been stopped, and after the
\* cleanup, while the component is unmounted, no simulation is Running and
\* no tick writes the nodes.
C18_OneSimulationRunning ==
  [][/\ ev'.op = "start" => (phase = "Stopped" /\ ~mounted)
     /\ ~mounted' => phase' = "Stopped"
     /\ ~mounted => ev'.op # "tick"]_vars

\* A second simulation, created after its predecessor was stopped while it
\* was still warm, has ticked over the nodes the predecessor left moving.
C18_Witness ==
  /\ runs >= 2
  /\ mounted
  /\ phase = "Running"
  /\ ticks >= 1
  /\ ev.op = "tick"
  /\ \E i \in 1..Len(nodes) : nodes[i].vx # 0

====
